---- MODULE Spec2Model ----
(***************************************************************************)
(* Model of the real-time voice chat client.                               *)
(*                                                                         *)
(* The hook useGeminiLive (src/hooks/useGeminiLive.ts) exists in two       *)
(* revisions in the same file: lines 1-175 (isSpeaking poll, onclose calls *)
(* stopSession) and lines 176-361 (live transcript).  The model is the     *)
(* first revision extended with the transcript handling of the second:     *)
(* the two agree on everything else they share.  The App component that    *)
(* drives the hook is src/unnamed/part_003 (same logic as src/App.tsx).    *)
(*                                                                         *)
(* The SDK session (ai.live.connect) is the environment.  It behaves like  *)
(* the WebSocket it wraps: onopen once, then onmessage any number of       *)
(* times, onerror at most once, onclose last; the connect promise resolves *)
(* right after onopen.  Audio payloads are well-formed 16-bit PCM, so the  *)
(* repository's decodeAudioData resolves, one microtask after its call.    *)
(*                                                                         *)
(* JavaScript scheduling: a continuation behind `await` runs as a          *)
(* microtask.  Timers, DOM events, audio callbacks and WebSocket events    *)
(* are tasks and run only when no microtask is runnable (Quiet).  The SDK  *)
(* parses messages asynchronously, so a further onmessage call may be made *)
(* while an earlier one still waits for decodeAudioData.                   *)
(***************************************************************************)
EXTENDS Integers, Sequences, FiniteSets, TLC

\* ---------------------------------------------------------------- bounds
MaxSessions == 2      \* sessions opened with ai.live.connect in one run
MaxMicSessions == 3   \* sessions opened in one run of the microphone's specification
MaxChunks == 2        \* audio chunks received in one run
MaxDur == 2           \* longest audio buffer, in clock ticks
MaxTime == 2          \* last value of an output context's clock
MaxFrames == 2        \* microphone frames captured in one run
MaxFragments == 3     \* transcription fragments held in the transcript
MaxAwaiting == 2      \* continuations suspended on connect promises at one time
MaxRecordings == 2    \* recordings started in the single-file App in one run
MaxText == 2          \* longest transcription accumulator, in characters
MaxHistory == 2       \* messages held in conversationHistory
SampleScale == 6      \* a sample is k / SampleScale, k in -SampleScale..SampleScale
MaxFrameLen == 2      \* samples in one frame of the script processor

\* ------------------------------------------------------------ vocabulary
Idle == "IDLE"
Connecting == "CONNECTING"
Listening == "LISTENING"
Error == "ERROR"
SessionStatus == {Idle, Connecting, Listening, Error}

User == "USER"
AI == "AI"
Speaker == {User, AI}

NoError == "null"
Absent == "<absent>"
InputTexts == {"a"}
OutputTexts == {"b"}
ErrorMessages == {"boom"}
ApiKeyMessages == {"API key not valid", "API key is invalid", "Requested entity was not found"}

KeyNotFound == "API key not found. Please select or enter an API key."
NoGetUserMedia == "getUserMedia is not supported in this browser."
PermissionDenied == "Permission denied"

VARIABLES
    status, error, isSpeaking, transcript,
    sessionPromiseRef, inputAudioContextRef, outputAudioContextRef,
    scriptProcessorRef, mediaStreamSourceRef, mediaStreamRef,
    outputSources, nextStartTime,
    isSessionActive, effectDeps, autoStartedRef,
    sessions, gumPending, awaiting, decoding,
    sources, currentTime, closedContexts, processors, liveTracks,
    frames, sent, last,
    conversationHistory, currentInputTranscription, currentOutputTranscription,
    isRecording, isLoading, sessionRef, closure, recordings,
    recordingError, recorderRefs, liveResources, inputData, pcmBlob

hookState == <<status, error, isSpeaking, transcript>>
refs == <<sessionPromiseRef, inputAudioContextRef, outputAudioContextRef,
          scriptProcessorRef, mediaStreamSourceRef, mediaStreamRef>>
playback == <<outputSources, nextStartTime, sources>>
appState == <<isSessionActive, effectDeps, autoStartedRef>>
browser == <<currentTime, closedContexts, processors, liveTracks>>
micLog == <<frames, sent>>
hook == <<status, error, isSpeaking, transcript, refs, playback, appState,
          sessions, gumPending, awaiting, decoding, browser, micLog>>
monolith == <<conversationHistory, currentInputTranscription, currentOutputTranscription,
              isRecording, isLoading, sessionRef, closure, recordings,
              recordingError, recorderRefs, liveResources, inputData, pcmBlob>>
vars == <<status, error, isSpeaking, transcript,
          sessionPromiseRef, inputAudioContextRef, outputAudioContextRef,
          scriptProcessorRef, mediaStreamSourceRef, mediaStreamRef,
          outputSources, nextStartTime,
          isSessionActive, effectDeps, autoStartedRef,
          sessions, gumPending, awaiting, decoding,
          sources, currentTime, closedContexts, processors, liveTracks,
          frames, sent, last,
          conversationHistory, currentInputTranscription, currentOutputTranscription,
          isRecording, isLoading, sessionRef, closure, recordings,
          recordingError, recorderRefs, liveResources, inputData, pcmBlob>>

\* ------------------------------------------------------------- helpers
Max(a, b) == IF a >= b THEN a ELSE b

\* the handler that ran last, with the flags and the chunk of its message
Op(name) == [op |-> name, interrupted |-> FALSE, turnComplete |-> FALSE, chunk |-> 0,
             input |-> Absent, output |-> Absent]

MsgOp(name, m, id) == [op |-> name, interrupted |-> m.interrupted, turnComplete |-> m.turnComplete,
                       chunk |-> id, input |-> m.input, output |-> m.output]

\* error.includes(...) of the App's effects, on the messages the model uses
IsApiKeyError(e) == \E m \in ApiKeyMessages : e \in {"Session error: " \o m, "Failed to start: " \o m}

PromiseOf(sess, s) == IF s = 0 THEN "none" ELSE sess[s].promise

\* session.close(): an open socket starts closing; any other is left as it is
Close(sess, s) == IF sess[s].phase = "open" THEN [sess EXCEPT ![s].phase = "closing"] ELSE sess

\* index of the first suspended continuation whose promise has settled, or 0
FirstSettled == IF \E i \in 1..Len(awaiting) : sessions[awaiting[i].s].promise # "pending"
                THEN CHOOSE i \in 1..Len(awaiting) :
                        /\ sessions[awaiting[i].s].promise # "pending"
                        /\ \A j \in 1..(i - 1) : sessions[awaiting[j].s].promise = "pending"
                ELSE 0

Resumable == FirstSettled # 0

\* no microtask is runnable: the event loop takes the next task
Quiet == decoding = <<>> /\ ~Resumable

EffectsSettled == effectDeps = <<status, error>>

\* a continuation that has to wait for the connect promise finds room to wait
RoomToWait == PromiseOf(sessions, sessionPromiseRef) = "pending" => Len(awaiting) < MaxAwaiting

Init ==
    /\ status = Idle
    /\ error = NoError
    /\ isSpeaking = FALSE
    /\ transcript = <<>>
    /\ sessionPromiseRef = 0
    /\ inputAudioContextRef = 0
    /\ outputAudioContextRef = 0
    /\ scriptProcessorRef = 0
    /\ mediaStreamSourceRef = 0
    /\ mediaStreamRef = 0
    /\ outputSources = {}
    /\ nextStartTime = 0
    /\ isSessionActive = FALSE
    /\ effectDeps = <<Idle, NoError>>
    /\ autoStartedRef = FALSE
    /\ sessions = <<>>
    /\ gumPending = 0
    /\ awaiting = <<>>
    /\ decoding = <<>>
    /\ sources = <<>>
    /\ currentTime = 0
    /\ closedContexts = {}
    /\ processors = {}
    /\ liveTracks = {}
    /\ frames = <<>>
    /\ sent = <<>>
    /\ last = Op("init")
    /\ conversationHistory = <<>>
    /\ currentInputTranscription = ""
    /\ currentOutputTranscription = ""
    /\ isRecording = FALSE
    /\ isLoading = FALSE
    /\ sessionRef = "null"
    /\ closure = [currentInputTranscription |-> "", currentOutputTranscription |-> ""]
    /\ recordings = 0
    /\ recordingError = NoError
    /\ recorderRefs = [r \in {"mediaStreamRef", "inputAudioContextRef", "outputAudioContextRef",
                               "mediaStreamSourceRef", "scriptProcessorRef"} |-> 0]
    /\ liveResources = {}
    /\ inputData = <<>>
    /\ pcmBlob = <<>>

\* ------------------------------------------------------------ stopSession
\* source.stop() on every source of outputSources (useGeminiLive.ts 68, 148-151)
StopAll(srcs, ids) == [i \in DOMAIN srcs |-> IF i \in ids THEN [srcs[i] EXCEPT !.stopped = TRUE] ELSE srcs[i]]

\* mutant of StopTail: stopSession stops the microphone stream and keeps it
StopTailKeepsStream(sess, s) ==
    /\ sessions' = IF s # 0 /\ sess[s].promise = "resolved" THEN Close(sess, s) ELSE sess
    /\ sessionPromiseRef' = 0
    /\ processors' = {p \in processors : p.id # scriptProcessorRef}
    /\ scriptProcessorRef' = 0
    /\ mediaStreamSourceRef' = 0
    /\ liveTracks' = liveTracks \ {mediaStreamRef}
    /\ mediaStreamRef' = mediaStreamRef
    /\ closedContexts' = closedContexts \cup ({inputAudioContextRef, outputAudioContextRef} \ {0})
    /\ sources' = StopAll(sources, outputSources)
    /\ outputSources' = {}
    /\ nextStartTime' = 0
    /\ isSpeaking' = FALSE
    /\ status' = Idle

\* mutant of StopTail: stopSession without setIsSpeaking(false)
StopTailKeepsSpeaking(sess, s) ==
    /\ sessions' = IF s # 0 /\ sess[s].promise = "resolved" THEN Close(sess, s) ELSE sess
    /\ sessionPromiseRef' = 0
    /\ processors' = {p \in processors : p.id # scriptProcessorRef}
    /\ scriptProcessorRef' = 0
    /\ mediaStreamSourceRef' = 0
    /\ liveTracks' = liveTracks \ {mediaStreamRef}
    /\ mediaStreamRef' = 0
    /\ closedContexts' = closedContexts \cup ({inputAudioContextRef, outputAudioContextRef} \ {0})
    /\ sources' = StopAll(sources, outputSources)
    /\ outputSources' = {}
    /\ nextStartTime' = 0
    /\ isSpeaking' = isSpeaking
    /\ status' = Idle

\* stopSession from the end of its await to its last line; s is the session
\* whose promise was awaited (0 when sessionPromiseRef was null)
StopTail(sess, s) ==
    /\ sessions' = IF s # 0 /\ sess[s].promise = "resolved" THEN Close(sess, s) ELSE sess
    /\ sessionPromiseRef' = 0
    /\ processors' = {p \in processors : p.id # scriptProcessorRef}
    /\ scriptProcessorRef' = 0
    /\ mediaStreamSourceRef' = 0
    /\ liveTracks' = liveTracks \ {mediaStreamRef}
    /\ mediaStreamRef' = 0
    /\ closedContexts' = closedContexts \cup ({inputAudioContextRef, outputAudioContextRef} \ {0})
    /\ sources' = StopAll(sources, outputSources)
    /\ outputSources' = {}
    /\ nextStartTime' = 0
    /\ isSpeaking' = FALSE
    /\ status' = Idle

\* a call of stopSession made by the handler named by, after it set status to
\* st and the sessions to sess: it runs to its end unless it has to wait for a
\* pending connect promise
StopSession(by, st, sess) ==
    IF sessionPromiseRef # 0 /\ sess[sessionPromiseRef].promise = "pending"
    THEN /\ awaiting' = Append(awaiting, [k |-> "stop", s |-> sessionPromiseRef, f |-> 0, by |-> by])
         /\ sessions' = sess
         /\ status' = st
         /\ UNCHANGED <<sessionPromiseRef, processors, scriptProcessorRef, mediaStreamSourceRef,
                        liveTracks, mediaStreamRef, closedContexts, sources, outputSources,
                        nextStartTime, isSpeaking>>
    ELSE /\ awaiting' = awaiting
         /\ StopTail(sess, sessionPromiseRef)

\* session.sendRealtimeInput({ media: pcmBlob }) on session s (118)
SendRealtimeInput(snt, f, s) == Append(snt, [f |-> f, s |-> s])

\* a continuation suspended on a connect promise runs once the promise settles:
\* the rest of stopSession, or the send of a microphone frame
Resume ==
    /\ Resumable
    /\ LET i == FirstSettled
           w == awaiting[i]
           rest == SubSeq(awaiting, 1, i - 1) \o SubSeq(awaiting, i + 1, Len(awaiting))
       IN /\ awaiting' = rest
          /\ IF w.k = "stop"
             THEN /\ StopTail(sessions, w.s)
                  /\ last' = Op(w.by)
                  /\ UNCHANGED sent
             ELSE /\ sent' = IF sessions[w.s].promise = "resolved"
                             THEN SendRealtimeInput(sent, w.f, w.s)
                             ELSE sent
                  /\ last' = Op("send")
                  /\ UNCHANGED <<sessions, sessionPromiseRef, processors, scriptProcessorRef,
                                 mediaStreamSourceRef, liveTracks, mediaStreamRef, closedContexts,
                                 sources, outputSources, nextStartTime, isSpeaking, status>>
    /\ UNCHANGED <<monolith, error, transcript, inputAudioContextRef, outputAudioContextRef,
                   appState, gumPending, decoding, currentTime, frames>>

\* ----------------------------------------------------------- startSession
\* a startSession that asks for the microphone before it looks for the key
StartSessionAsksMicrophoneFirst(fail) ==
    /\ transcript' = <<>>
    /\ isSpeaking' = FALSE
    /\ gumPending' = gumPending + 1
    /\ IF fail = "none"
       THEN /\ error' = NoError
            /\ status' = Connecting
       ELSE /\ error' = "Failed to start: " \o (IF fail = "nokey" THEN KeyNotFound ELSE NoGetUserMedia)
            /\ status' = Error

\* startSession up to its first await (useGeminiLive.ts 76-92); fail names the
\* check that throws, "none" when the call reaches getUserMedia
StartSession(fail) ==
    /\ transcript' = <<>>
    /\ isSpeaking' = FALSE
    /\ IF fail = "none"
       THEN /\ error' = NoError
            /\ status' = Connecting
            /\ gumPending' = gumPending + 1
       ELSE /\ error' = "Failed to start: " \o (IF fail = "nokey" THEN KeyNotFound ELSE NoGetUserMedia)
            /\ status' = Error
            /\ gumPending' = gumPending

\* getUserMedia resolved: the contexts are created and connect is called
GetUserMediaResolved ==
    /\ Quiet
    /\ gumPending > 0
    /\ LET id == Len(sessions) + 1
       IN /\ mediaStreamRef' = id
          /\ liveTracks' = liveTracks \cup {id}
          /\ inputAudioContextRef' = id
          /\ outputAudioContextRef' = id
          /\ currentTime' = 0
          /\ sessions' = Append(sessions, [phase |-> "connecting", promise |-> "pending"])
          /\ sessionPromiseRef' = id
    /\ gumPending' = gumPending - 1
    /\ last' = Op("connect")
    /\ UNCHANGED <<monolith, hookState, scriptProcessorRef, mediaStreamSourceRef, playback, appState,
                   awaiting, decoding, closedContexts, processors, micLog>>

\* getUserMedia rejected: the catch block of startSession
GetUserMediaRejected ==
    /\ Quiet
    /\ gumPending > 0
    /\ gumPending' = gumPending - 1
    /\ error' = "Failed to start: " \o PermissionDenied
    /\ status' = Error
    /\ last' = Op("startFailed")
    /\ UNCHANGED <<monolith, isSpeaking, transcript, refs, playback, appState, sessions, awaiting,
                   decoding, browser, micLog>>

\* ------------------------------------------------------------------- App
\* the auto-start effect (part_003 133-140), with the API key ready: it runs
\* after the first render that has the key, once
AutoStart(fail) ==
    /\ Quiet /\ EffectsSettled
    /\ ~isSessionActive /\ status = Idle /\ ~autoStartedRef
    /\ autoStartedRef' = TRUE
    /\ StartSession(fail)
    /\ isSessionActive' = TRUE
    /\ last' = Op("startSession")
    /\ UNCHANGED <<monolith, refs, playback, effectDeps, sessions, awaiting, decoding, browser, micLog>>

\* handleToggleSession with isSessionActive false (part_003 170-172); the
\* button is there to press once the effects of the first render have run
ToggleStart(fail) ==
    /\ Quiet /\ EffectsSettled
    /\ autoStartedRef
    /\ status # Connecting
    /\ ~isSessionActive
    /\ StartSession(fail)
    /\ isSessionActive' = TRUE
    /\ last' = Op("startSession")
    /\ UNCHANGED <<monolith, refs, playback, effectDeps, autoStartedRef, sessions, awaiting, decoding,
                   browser, micLog>>

\* handleToggleSession with isSessionActive true (part_003 167-169)
ToggleStop ==
    /\ Quiet /\ EffectsSettled
    /\ RoomToWait
    /\ status # Connecting
    /\ isSessionActive
    /\ StopSession("stopSession", status, sessions)
    /\ isSessionActive' = FALSE
    /\ last' = Op(IF awaiting' = awaiting THEN "stopSession" ELSE "stopWaiting")
    /\ UNCHANGED <<monolith, error, transcript, inputAudioContextRef, outputAudioContextRef, effectDeps,
                   autoStartedRef, gumPending, decoding, currentTime, micLog>>

\* the effect on [status, error] (part_003 176-183)
StatusEffect ==
    /\ Quiet
    /\ ~EffectsSettled
    /\ effectDeps' = <<status, error>>
    /\ isSessionActive' = IF status \in {Error, Idle} /\ ~IsApiKeyError(error)
                          THEN FALSE ELSE isSessionActive
    /\ last' = Op("effect")
    /\ UNCHANGED <<monolith, hookState, refs, playback, autoStartedRef, sessions, gumPending, awaiting,
                   decoding, browser, micLog>>

\* ------------------------------------------------------------ transcript
\* one setTranscript updater of onmessage (useGeminiLive.ts 285-293, 297-305)
AppendFragment(tr, speaker, text) ==
    IF Len(tr) > 0 /\ tr[Len(tr)].speaker = speaker /\ ~tr[Len(tr)].isFinal
    THEN [tr EXCEPT ![Len(tr)].text = @ \o text]
    ELSE Append(tr, [speaker |-> speaker, text |-> text, isFinal |-> FALSE])

\* the input fragment is handled before the output fragment (283-306)
ApplyTranscription(tr, m) ==
    LET t1 == IF m.input # Absent THEN AppendFragment(tr, User, m.input) ELSE tr
    IN IF m.output # Absent THEN AppendFragment(t1, AI, m.output) ELSE t1

\* mutant of FinalizeAll: only the last entry is closed
FinalizeLast(tr) == [i \in DOMAIN tr |-> IF i = Len(tr) THEN [tr[i] EXCEPT !.isFinal = TRUE] ELSE tr[i]]

\* the updater run on turnComplete (326-330)
FinalizeAll(tr) == [i \in DOMAIN tr |-> IF tr[i].isFinal THEN tr[i] ELSE [tr[i] EXCEPT !.isFinal = TRUE]]

FragmentCount(m) == (IF m.input # Absent THEN 1 ELSE 0) + (IF m.output # Absent THEN 1 ELSE 0)

RECURSIVE TextLength(_)
TextLength(tr) == IF tr = <<>> THEN 0 ELSE Len(Head(tr).text) + TextLength(Tail(tr))

\* -------------------------------------------------------------- playback
\* mutant of ScheduleStart: the chunk starts at the clock's time, whatever is queued
ScheduleStartAtClock(nst, now) == now

\* Math.max(nextStartTime.current, currentTime) (useGeminiLive.ts 140)
ScheduleStart(nst, now) == Max(nst, now)

\* mutant of AfterChunk: nextStartTime leaves a gap after the chunk
AfterChunkWithGap(start, dur) == start + dur + 1

\* nextStartTime.current += audioBuffer.duration (143)
AfterChunk(start, dur) == start + dur

\* mutant of IsCurrentlySpeaking: a queue that ends now still counts as speaking
IsCurrentlySpeakingOrEqual(nst, now) == nst >= now

\* nextStartTime.current > outputAudioContextRef.current.currentTime (32)
IsCurrentlySpeaking(nst, now) == nst > now

\* the AudioBufferSourceNode made for chunk number i once it is decoded and
\* started (132-144); ahead records whether the queue was ahead of the clock
Scheduled(src, nst, now, ctx) ==
    [src EXCEPT !.start = ScheduleStart(nst, now), !.ctx = ctx, !.scheduled = TRUE,
                !.ahead = (nst > now)]

\* the chunks still being decoded when message m has been handled: when m is
\* an interruption, the record of each notes that it came after the chunk's
\* message (history only)
Overtake(m, dec) ==
    IF m.interrupted THEN [i \in DOMAIN dec |-> [dec[i] EXCEPT !.overtaken = TRUE]] ELSE dec

\* mutant of FinishMessage: the interruption stops the sources and forgets the rest
FinishMessageStopOnly(m, tr, srcs, outs, nst) ==
    /\ transcript' = IF m.turnComplete THEN FinalizeAll(tr) ELSE tr
    /\ sources' = IF m.interrupted THEN StopAll(srcs, outs) ELSE srcs
    /\ outputSources' = outs
    /\ nextStartTime' = nst

\* onmessage from the end of the audio block to its end (147-153, 325-339):
\* tr, srcs, outs and nst are the values left by the part before it
FinishMessage(m, tr, srcs, outs, nst) ==
    /\ transcript' = IF m.turnComplete THEN FinalizeAll(tr) ELSE tr
    /\ sources' = IF m.interrupted THEN StopAll(srcs, outs) ELSE srcs
    /\ outputSources' = IF m.interrupted THEN {} ELSE outs
    /\ nextStartTime' = IF m.interrupted THEN 0 ELSE nst

\* onmessage up to its await, or to its end when it carries no audio (127-131)
OnMessage(m) ==
    LET tr == ApplyTranscription(transcript, m)
    IN IF m.audio > 0 /\ outputAudioContextRef # 0
       THEN /\ transcript' = tr
            /\ sources' = Append(sources, [start |-> 0, dur |-> m.audio, ctx |-> 0,
                                            scheduled |-> FALSE, stopped |-> FALSE, ahead |-> FALSE])
            /\ decoding' = Append(decoding, [id |-> Len(sources) + 1, m |-> m, overtaken |-> FALSE])
            /\ last' = MsgOp("onmessageAwait", m, Len(sources) + 1)
            /\ UNCHANGED <<outputSources, nextStartTime>>
       ELSE /\ FinishMessage(m, tr, sources, outputSources, nextStartTime)
            /\ decoding' = Overtake(m, decoding)
            /\ last' = MsgOp("onmessage", m, 0)

\* decodeAudioData resolved: onmessage goes on after its await (132-153)
Decoded ==
    /\ decoding # <<>>
    /\ LET c == Head(decoding)
           src == Scheduled(sources[c.id], nextStartTime, currentTime, outputAudioContextRef)
       IN /\ FinishMessage(c.m, transcript, [sources EXCEPT ![c.id] = src],
                           outputSources \cup {c.id}, AfterChunk(src.start, src.dur))
          /\ last' = MsgOp("onmessage", c.m, c.id)
    /\ decoding' = Overtake(Head(decoding).m, Tail(decoding))
    /\ UNCHANGED <<monolith, status, error, isSpeaking, refs, appState, sessions, gumPending, awaiting,
                   browser, micLog>>

\* the 'ended' listener of a source (136): it fires when the source has played
\* to its end on a running context
SourceEnded(i) ==
    /\ Quiet
    /\ i \in outputSources
    /\ sources[i].ctx \notin closedContexts
    /\ sources[i].ctx = outputAudioContextRef => currentTime >= sources[i].start + sources[i].dur
    /\ outputSources' = outputSources \ {i}
    /\ last' = Op("ended")
    /\ UNCHANGED <<monolith, hookState, refs, nextStartTime, sources, appState, sessions, gumPending,
                   awaiting, decoding, browser, micLog>>

\* the clock of the current output context advances
AdvanceTime ==
    /\ Quiet
    /\ outputAudioContextRef # 0
    /\ outputAudioContextRef \notin closedContexts
    /\ currentTime < MaxTime
    /\ currentTime' = currentTime + 1
    /\ UNCHANGED <<monolith, hookState, refs, playback, appState, sessions, gumPending, awaiting,
                   decoding, closedContexts, processors, liveTracks, micLog, last>>

\* the setInterval callback of the isSpeaking effect (28-39)
PollTick ==
    /\ Quiet
    /\ isSpeaking' = IF status = Listening /\ outputAudioContextRef # 0
                     THEN IsCurrentlySpeaking(nextStartTime, currentTime)
                     ELSE FALSE
    /\ last' = Op("poll")
    /\ UNCHANGED <<monolith, status, error, transcript, refs, playback, appState, sessions, gumPending,
                   awaiting, decoding, browser, micLog>>

\* ------------------------------------------------------------ microphone
\* onaudioprocess of a connected script processor (114-122)
OnAudioProcess(p) ==
    /\ Quiet
    /\ RoomToWait
    /\ p \in processors
    /\ p.ctx \notin closedContexts
    /\ Len(frames) < MaxFrames
    /\ frames' = Append(frames, [status |-> status, ref |-> sessionPromiseRef])
    /\ LET f == Len(frames) + 1
           pr == PromiseOf(sessions, sessionPromiseRef)
       IN /\ sent' = IF pr = "resolved" THEN SendRealtimeInput(sent, f, sessionPromiseRef) ELSE sent
          /\ awaiting' = IF pr = "pending"
                         THEN Append(awaiting, [k |-> "send", s |-> sessionPromiseRef, f |-> f, by |-> "frame"])
                         ELSE awaiting
    /\ last' = Op("frame")
    /\ UNCHANGED <<monolith, hookState, refs, playback, appState, sessions, gumPending, decoding, browser>>

\* ------------------------------------------------- callbacks of a session
\* mutant of OnOpen: onopen returns before it sets the status
OnOpenReturnsEarly(s) == UNCHANGED <<status, mediaStreamSourceRef, scriptProcessorRef, processors>>

\* onopen (108-126)
OnOpen(s) ==
    IF inputAudioContextRef = 0 \/ mediaStreamRef = 0
    THEN UNCHANGED <<status, mediaStreamSourceRef, scriptProcessorRef, processors>>
    ELSE /\ status' = Listening
         /\ mediaStreamSourceRef' = s
         /\ scriptProcessorRef' = s
         /\ processors' = processors \cup {[id |-> s, ctx |-> inputAudioContextRef]}

\* the socket opens: onopen is called and the connect promise resolves
SdkOpen(s) ==
    /\ Quiet
    /\ s \in DOMAIN sessions
    /\ sessions[s].phase = "connecting"
    /\ sessions' = [sessions EXCEPT ![s] = [phase |-> "open", promise |-> "resolved"]]
    /\ OnOpen(s)
    /\ last' = Op("onopen")
    /\ UNCHANGED <<monolith, error, isSpeaking, transcript, sessionPromiseRef, inputAudioContextRef,
                   outputAudioContextRef, mediaStreamRef, playback, appState, gumPending,
                   awaiting, decoding, currentTime, closedContexts, liveTracks, micLog>>

\* a server message arrives on an open session
SdkMessage(s, m) ==
    /\ ~Resumable
    /\ s \in DOMAIN sessions
    /\ sessions[s].phase = "open"
    /\ m.audio > 0 => Len(sources) < MaxChunks
    /\ TextLength(transcript) + FragmentCount(m) <= MaxFragments
    /\ OnMessage(m)
    /\ UNCHANGED <<monolith, status, error, isSpeaking, refs, appState, sessions, gumPending, awaiting,
                   browser, micLog>>

\* onerror (156-161): the socket failed, while connecting or when open
SdkError(s, msg) ==
    /\ Quiet
    /\ RoomToWait
    /\ s \in DOMAIN sessions
    /\ sessions[s].phase \in {"connecting", "open"}
    /\ error' = "Session error: " \o msg
    /\ StopSession("onerror", Error, [sessions EXCEPT ![s].phase = "failed"])
    /\ last' = Op(IF awaiting' = awaiting THEN "onerror" ELSE "onerrorWaiting")
    /\ UNCHANGED <<monolith, transcript, inputAudioContextRef, outputAudioContextRef, appState,
                   gumPending, decoding, currentTime, micLog>>

\* onclose (162-164): the socket closed, by the server, after an error or
\* after session.close()
SdkClose(s) ==
    /\ Quiet
    /\ RoomToWait
    /\ s \in DOMAIN sessions
    /\ sessions[s].phase \in {"open", "failed", "closing"}
    /\ StopSession("onclose", status, [sessions EXCEPT ![s].phase = "closed"])
    /\ last' = Op(IF awaiting' = awaiting THEN "onclose" ELSE "oncloseWaiting")
    /\ UNCHANGED <<monolith, error, transcript, inputAudioContextRef, outputAudioContextRef, appState,
                   gumPending, decoding, currentTime, micLog>>

\* the connect promise of a socket that never opened rejects
SdkReject(s) ==
    /\ Quiet
    /\ s \in DOMAIN sessions
    /\ sessions[s].phase \in {"failed", "closed"}
    /\ sessions[s].promise = "pending"
    /\ sessions' = [sessions EXCEPT ![s].promise = "rejected"]
    /\ last' = Op("reject")
    /\ UNCHANGED <<monolith, hookState, refs, playback, appState, gumPending, awaiting, decoding,
                   browser, micLog>>

\* ------------------------------------------- the single-file App (part_001)
\* String.prototype.trim on the texts the model uses
RECURSIVE TrimStart(_)
TrimStart(t) == IF Len(t) > 0 /\ SubSeq(t, 1, 1) = " " THEN TrimStart(SubSeq(t, 2, Len(t))) ELSE t

RECURSIVE TrimEnd(_)
TrimEnd(t) == IF Len(t) > 0 /\ SubSeq(t, Len(t), Len(t)) = " " THEN TrimEnd(SubSeq(t, 1, Len(t) - 1)) ELSE t

Trim(t) == TrimEnd(TrimStart(t))

\* setCurrent...Transcription((prev) => prev + text) (174-179)
Accumulate(prev, text) == IF text = Absent THEN prev ELSE prev \o text

\* the turnComplete branch (181-196): the two texts it reads, trimmed, go to
\* conversationHistory when they are not blank
CompleteTurn(history, inputText, outputText) ==
    history
    \o (IF Trim(inputText) # "" THEN <<[sender |-> "user", text |-> Trim(inputText)]>> ELSE <<>>)
    \o (IF Trim(outputText) # "" THEN <<[sender |-> "ai", text |-> Trim(outputText)]>> ELSE <<>>)

\* the refs handleStartRecording fills, in the order it fills them (136-148)
RecorderSetup == <<"mediaStreamRef", "inputAudioContextRef", "outputAudioContextRef",
                   "mediaStreamSourceRef", "scriptProcessorRef">>

\* the steps of handleStartRecording that can throw: the five of RecorderSetup
\* and, sixth, new GoogleGenAI / ai.live.connect (159-162); 0 is no failure
RecordingFailures == 0..6

\* err.message of the step that threw
Thrown(k) == <<PermissionDenied, "no input context", "no output context", "no source node",
               "no script processor", "connect failed">>[k]

StartFailurePrefix == "Failed to start microphone or AI session"

\* the refs after the first n steps of the setup of recording id
Acquired(r, n, id) ==
    [x \in DOMAIN r |-> IF \E i \in 1..n : RecorderSetup[i] = x THEN id ELSE r[x]]

\* the browser objects those refs hold: tracks, nodes and contexts
Held(r) == {<<x, r[x]>> : x \in {y \in DOMAIN r : r[y] # 0}}

\* the objects let go when the refs change from before to after
Dropped(before, after) ==
    {<<x, before[x]>> : x \in {y \in DOMAIN before : before[y] # 0 /\ after[y] = 0}}

\* handleStopRecording that forgets the microphone stream
ReleasedButStream(r) == [x \in DOMAIN r |-> IF x = "mediaStreamRef" THEN r[x] ELSE 0]

\* handleStopRecording (283-305): every ref that is set is stopped,
\* disconnected or closed, and set to null
Released(r) == [x \in DOMAIN r |-> 0]

\* handleStartRecording (126-269), called from the toggle button while it is
\* enabled: the callbacks it hands to ai.live.connect close over the
\* currentInputTranscription and currentOutputTranscription of the render the
\* handler was created in; a step that throws sends it to its catch block
\* (262-268), which calls handleStopRecording
HandleStartRecording(fail) ==
    /\ ~isRecording /\ ~isLoading
    /\ recordings < MaxRecordings
    /\ recordings' = recordings + 1
    /\ LET id == recordings + 1
           got == Acquired(recorderRefs, IF fail = 0 THEN 5 ELSE fail - 1, id)
       IN IF fail = 0
          THEN /\ isLoading' = TRUE
               /\ sessionRef' = "connecting"
               /\ closure' = [currentInputTranscription |-> currentInputTranscription,
                              currentOutputTranscription |-> currentOutputTranscription]
               /\ recordingError' = NoError
               /\ recorderRefs' = got
               /\ liveResources' = liveResources \cup Held(got)
               /\ last' = Op("handleStartRecording")
          ELSE /\ isLoading' = FALSE
               /\ recordingError' = StartFailurePrefix \o ": " \o Thrown(fail)
               /\ recorderRefs' = Released(got)
               /\ liveResources' = (liveResources \cup Held(got)) \ Dropped(got, Released(got))
               /\ last' = Op("handleStartRecording.catch")
               /\ UNCHANGED <<sessionRef, closure>>
    /\ UNCHANGED <<hook, conversationHistory, currentInputTranscription,
                   currentOutputTranscription, isRecording, inputData, pcmBlob>>

\* onopen (165-172)
MonolithOnOpen ==
    /\ sessionRef = "connecting"
    /\ sessionRef' = "open"
    /\ isRecording' = TRUE
    /\ isLoading' = FALSE
    /\ currentInputTranscription' = ""
    /\ currentOutputTranscription' = ""
    /\ last' = Op("monolith.onopen")
    /\ UNCHANGED <<hook, conversationHistory, closure, recordings, recordingError, recorderRefs,
                   liveResources, inputData, pcmBlob>>

\* onmessage (173-196): the fragments go through the state updaters, the
\* turnComplete branch reads the variables of the callback's closure
MonolithOnMessage(m) ==
    /\ sessionRef = "open"
    /\ Len(Accumulate(currentInputTranscription, m.input)) <= MaxText
    /\ Len(Accumulate(currentOutputTranscription, m.output)) <= MaxText
    /\ IF m.turnComplete
       THEN /\ conversationHistory' = CompleteTurn(conversationHistory,
                                                   closure.currentInputTranscription,
                                                   closure.currentOutputTranscription)
            /\ Len(conversationHistory') <= MaxHistory
            /\ currentInputTranscription' = ""
            /\ currentOutputTranscription' = ""
       ELSE /\ currentOutputTranscription' = Accumulate(currentOutputTranscription, m.output)
            /\ currentInputTranscription' = Accumulate(currentInputTranscription, m.input)
            /\ UNCHANGED conversationHistory
    /\ last' = MsgOp("monolith.onmessage", m, 0)
    /\ UNCHANGED <<hook, isRecording, isLoading, sessionRef, closure, recordings, recordingError,
                   recorderRefs, liveResources, inputData, pcmBlob>>

\* handleStopRecording (271-302), from the toggle button, onerror or onclose
HandleStopRecording ==
    /\ sessionRef # "null"
    /\ isRecording' = FALSE
    /\ isLoading' = FALSE
    /\ sessionRef' = "null"
    /\ recorderRefs' = Released(recorderRefs)
    /\ liveResources' = liveResources \ Dropped(recorderRefs, Released(recorderRefs))
    /\ last' = Op("handleStopRecording")
    /\ UNCHANGED <<hook, conversationHistory, currentInputTranscription,
                   currentOutputTranscription, closure, recordings, recordingError, inputData,
                   pcmBlob>>

\* ------------------------------------------------ createBlob (part_001)
\* a / b rounded toward zero, for b > 0
TruncDiv(a, b) == IF a >= 0 THEN a \div b ELSE -((-a) \div b)

\* the store into an Int16Array element: the number is truncated toward zero
\* and taken modulo 2^16 into -32768..32767
ToInt16(x) == LET m == x % 65536 IN IF m >= 32768 THEN m - 65536 ELSE m

\* createBlob (52-63) up to the Int16Array, on samples k / SampleScale
CreateBlob(data) == [i \in DOMAIN data |-> ToInt16(TruncDiv(data[i] * 32768, SampleScale))]

\* onaudioprocess (149-155): a frame of the microphone is encoded for the send
MonolithOnAudioProcess(data) ==
    /\ recorderRefs["scriptProcessorRef"] # 0
    /\ inputData' = data
    /\ pcmBlob' = CreateBlob(data)
    /\ last' = Op("monolith.onaudioprocess")
    /\ UNCHANGED <<hook, conversationHistory, currentInputTranscription,
                   currentOutputTranscription, isRecording, isLoading, sessionRef, closure,
                   recordings, recordingError, recorderRefs, liveResources>>

\* ------------------------------------------------------- specifications
StartFailures == {"none", "nokey", "nogum"}

\* messages of the audio stream: a chunk, an interruption, or both
AudioMessages ==
    [input : {Absent}, output : {Absent}, audio : 0..MaxDur,
     turnComplete : {FALSE}, interrupted : BOOLEAN]

\* messages of the transcription stream, with or without a chunk
TextMessages ==
    [input : InputTexts \cup {Absent}, output : OutputTexts \cup {Absent}, audio : {0, 1},
     turnComplete : BOOLEAN, interrupted : {FALSE}]

\* one session after another, started and stopped from the App, failing or
\* closing on the SDK's side; a callback of an earlier session may still come
Session(n) ==
    \/ AutoStart("none")
    \/ Len(sessions) + gumPending < n /\ ToggleStart("none")
    \/ ToggleStop
    \/ StatusEffect
    \/ GetUserMediaResolved
    \/ Resume
    \/ \E s \in DOMAIN sessions : SdkOpen(s)
    \/ \E s \in DOMAIN sessions, msg \in ErrorMessages : SdkError(s, msg)
    \/ \E s \in DOMAIN sessions : SdkClose(s)

\* the session lifecycle with every failure of startSession and of the connect
\* promise, the microphone and the isSpeaking poll
Next ==
    \/ Session(MaxSessions)
    \/ \E fail \in StartFailures \ {"none"} : AutoStart(fail)
    \/ \E fail \in StartFailures \ {"none"} : ToggleStart(fail)
    \/ GetUserMediaRejected
    \/ \E s \in DOMAIN sessions : SdkReject(s)
    \/ PollTick
    \/ \E p \in processors : OnAudioProcess(p)

Spec == Init /\ [][Next]_vars

\* what the SDK does with a socket that is connecting: it opens or it fails
ConnectOutcome(s) ==
    /\ s \in DOMAIN sessions
    /\ sessions[s].phase = "connecting"
    /\ SdkOpen(s) \/ \E msg \in ErrorMessages : SdkError(s, msg)

\* the lifecycle when the microphone request is answered, every connecting
\* socket opens or fails, and suspended continuations run once they can
SpecLive ==
    /\ Init /\ [][Next]_vars
    /\ WF_vars(GetUserMediaResolved \/ GetUserMediaRejected)
    /\ WF_vars(Resume)
    /\ \A s \in 1..MaxSessions : WF_vars(ConnectOutcome(s))

\* the microphone: one more session, the connect promise that rejects, and the
\* frames of every script processor that is still connected
NextMicrophone ==
    \/ Session(MaxMicSessions)
    \/ \E s \in DOMAIN sessions : SdkReject(s)
    \/ \E p \in processors : OnAudioProcess(p)

SpecMicrophone == Init /\ [][NextMicrophone]_vars

\* the playback queue: sessions, audio messages, the output clock and the poll
NextPlayback ==
    \/ Session(MaxSessions)
    \/ \E s \in DOMAIN sessions, m \in AudioMessages : SdkMessage(s, m)
    \/ Decoded
    \/ \E i \in outputSources : SourceEnded(i)
    \/ AdvanceTime
    \/ PollTick

SpecPlayback == Init /\ [][NextPlayback]_vars

\* the transcript: sessions and transcription messages
NextTranscript ==
    \/ Session(MaxSessions)
    \/ \E s \in DOMAIN sessions, m \in TextMessages : SdkMessage(s, m)
    \/ Decoded

SpecTranscript == Init /\ [][NextTranscript]_vars

\* transcription messages of the single-file App
MonolithTexts == {"a", " "}

MonolithMessages ==
    [input : MonolithTexts \cup {Absent}, output : MonolithTexts \cup {Absent}, audio : {0},
     turnComplete : BOOLEAN, interrupted : {FALSE}]

\* the single-file App: recordings, their transcription messages and turns
NextMonolith ==
    \/ \E fail \in RecordingFailures : HandleStartRecording(fail)
    \/ MonolithOnOpen
    \/ \E m \in MonolithMessages : MonolithOnMessage(m)
    \/ HandleStopRecording

SpecMonolith == Init /\ [][NextMonolith]_vars

\* samples in [-1, 1], as numerators over SampleScale
Samples == (0 - SampleScale)..SampleScale

Frames == UNION {[1..n -> Samples] : n \in 1..MaxFrameLen}

\* the microphone of the single-file App: recordings and the frames encoded
\* while a script processor is connected
NextCapture ==
    \/ HandleStartRecording(0)
    \/ MonolithOnOpen
    \/ HandleStopRecording
    \/ \E data \in Frames : MonolithOnAudioProcess(data)

SpecCapture == Init /\ [][NextCapture]_vars

\* ------------------------------------------------------------------ claims
SourceEnd(i) == sources[i].start + sources[i].dur

\* C1: the scheduled play intervals [start, start + duration) of the sources
\* held in outputSources are pairwise disjoint in every reachable state.
C1_QueuedIntervalsDisjoint ==
    \A i, j \in outputSources :
        i # j => (SourceEnd(i) <= sources[j].start \/ SourceEnd(j) <= sources[i].start)

\* two chunks are queued at once, the second one behind the first
C1_TwoQueued ==
    \E i, j \in outputSources : i < j /\ sources[j].start = SourceEnd(i) /\ sources[i].dur > 0

\* the chunk whose decoding ends in this step, if any
NewlyScheduled == IF decoding # <<>> /\ Len(decoding') = Len(decoding) - 1 THEN {Head(decoding).id} ELSE {}

\* C2: when onmessage finishes a message with interrupted set, outputSources is
\* empty, every source that was in it (the chunk of that same message included)
\* has been stopped, and nextStartTime is 0.
C2_InterruptedFlushes ==
    [][(last'.op = "onmessage" /\ last'.interrupted) =>
          /\ outputSources' = {}
          /\ nextStartTime' = 0
          /\ \A i \in outputSources \cup NewlyScheduled : sources'[i].stopped]_vars

\* an interrupted message that carried a chunk has been handled while another
\* chunk was queued: both are stopped
C2_FlushedWithOwnChunk ==
    /\ last.op = "onmessage" /\ last.interrupted /\ last.chunk # 0
    /\ sources[last.chunk].scheduled /\ sources[last.chunk].stopped
    /\ \E i \in DOMAIN sources : i # last.chunk /\ sources[i].stopped
                                   /\ sources[i].ctx = sources[last.chunk].ctx
    /\ outputSources = {}

\* the chunk scheduled just before chunk j, or 0
ScheduledBefore(j) ==
    IF \E k \in 1..(j - 1) : sources[k].scheduled
    THEN CHOOSE k \in 1..(j - 1) :
            sources[k].scheduled /\ \A l \in (k + 1)..(j - 1) : ~sources[l].scheduled
    ELSE 0

\* C8: chunks of one output clock are scheduled in arrival order: of two chunks
\* that were not flushed, the one that arrived first does not start later; and
\* a chunk scheduled while nextStartTime was ahead of the clock starts exactly
\* at the end of the chunk scheduled before it.
C8_ArrivalOrderBackToBack ==
    /\ \A i, j \in DOMAIN sources :
          (i < j /\ sources[i].scheduled /\ sources[j].scheduled
                 /\ ~sources[i].stopped /\ ~sources[j].stopped
                 /\ sources[i].ctx = sources[j].ctx)
             => sources[i].start <= sources[j].start
    /\ \A j \in DOMAIN sources :
          (sources[j].scheduled /\ sources[j].ahead)
             => /\ ScheduledBefore(j) # 0
                /\ sources[j].start = SourceEnd(ScheduledBefore(j))

\* two unflushed chunks of one clock, the second scheduled while the queue was
\* ahead of the clock
C8_SecondBehindFirst ==
    \E i, j \in DOMAIN sources :
        /\ i < j /\ sources[i].scheduled /\ sources[j].scheduled
        /\ ~sources[i].stopped /\ ~sources[j].stopped
        /\ sources[i].ctx = sources[j].ctx
        /\ sources[j].ahead /\ sources[j].start > sources[i].start

\* C9: a poll tick taken while status is Listening and the output context
\* exists sets isSpeaking to true exactly when nextStartTime is greater than
\* the output clock; so it sets it to false after a flush (nextStartTime 0)
\* and once the clock has reached the end of the last scheduled chunk.
C9_PollFollowsQueue ==
    [][(last'.op = "poll" /\ currentTime' = currentTime
          /\ status = Listening /\ outputAudioContextRef # 0) =>
          /\ isSpeaking' = (nextStartTime > currentTime)
          /\ (nextStartTime = 0 => ~isSpeaking')
          /\ ((\A i \in DOMAIN sources : sources[i].scheduled => SourceEnd(i) <= currentTime)
                 => ~isSpeaking')]_vars

\* a tick found the queue ahead of the clock while listening
C9_PolledSpeaking ==
    /\ last.op = "poll" /\ status = Listening /\ isSpeaking
    /\ nextStartTime > currentTime

StopDone == {"stopSession", "onerror", "onclose"}

\* C10: isSpeaking is false right after startSession begins and right after
\* stopSession completes, a poll tick taken while status is not Listening
\* makes it false, and it never becomes true while status is Idle, Connecting
\* or Error.
C10_SilentUnlessListening ==
    [][/\ last'.op \in StopDone \cup {"startSession"} => ~isSpeaking'
       /\ (last'.op = "poll" /\ currentTime' = currentTime /\ status # Listening) => ~isSpeaking'
       /\ (~isSpeaking /\ isSpeaking') => (status = Listening /\ status' = Listening)]_vars

\* stopSession has completed on a session whose queue was ahead of the clock
C10_StoppedWhileQueued ==
    /\ last.op \in StopDone /\ status = Idle /\ ~isSpeaking
    /\ \E i \in DOMAIN sources : sources[i].stopped /\ SourceEnd(i) > currentTime
                                   /\ sources[i].ctx = outputAudioContextRef

\* a step in which onmessage has run its transcription updaters (283-306)
FragmentStep ==
    /\ transcript' # transcript \/ last' # last
    /\ last'.op = "onmessageAwait" \/ (last'.op = "onmessage" /\ last'.chunk = 0)
    /\ last'.input # Absent \/ last'.output # Absent

\* the last open utterance of a speaker, or 0
LastOpen(tr, speaker) ==
    IF \E i \in DOMAIN tr : tr[i].speaker = speaker /\ ~tr[i].isFinal
    THEN CHOOSE i \in DOMAIN tr :
            /\ tr[i].speaker = speaker /\ ~tr[i].isFinal
            /\ \A k \in DOMAIN tr : (k > i) => ~(tr[k].speaker = speaker /\ ~tr[k].isFinal)
    ELSE 0

\* what the claim asks of one fragment
ExtendLastOpen(tr, speaker, text) ==
    IF LastOpen(tr, speaker) # 0
    THEN [tr EXCEPT ![LastOpen(tr, speaker)].text = @ \o text]
    ELSE Append(tr, [speaker |-> speaker, text |-> text, isFinal |-> FALSE])

ExtendBoth(tr, m) ==
    LET t1 == IF m.input # Absent THEN ExtendLastOpen(tr, User, m.input) ELSE tr
    IN IF m.output # Absent THEN ExtendLastOpen(t1, AI, m.output) ELSE t1

Utterances(tr) == [i \in DOMAIN tr |-> <<tr[i].speaker, tr[i].text>>]

\* C3: a transcription fragment that arrives while its speaker has an open
\* utterance is appended to that speaker's last open utterance and creates no
\* entry; an entry is created only when the speaker has no open utterance,
\* whatever the interleaving of User and AI fragments.
C3_FragmentExtendsSpeakersOpenUtterance ==
    [][FragmentStep => Utterances(transcript') = Utterances(ExtendBoth(transcript, last'))]_vars

AllFinal(tr) == \A i \in DOMAIN tr : tr[i].isFinal

\* C4: after onmessage has handled a message with turnComplete every entry of
\* the transcript has isFinal = TRUE, and a fragment that arrives while every
\* entry is final starts a new entry and leaves the existing ones as they are.
C4_TurnCompleteClosesAll ==
    [][/\ (last'.op = "onmessage" /\ last'.turnComplete) => AllFinal(transcript')
       /\ (FragmentStep /\ AllFinal(transcript)) =>
             /\ Len(transcript') = Len(transcript) + FragmentCount(last')
             /\ SubSeq(transcript', 1, Len(transcript)) = transcript]_vars

\* a closed utterance is followed by a new one of the same speaker
C4_NewEntryAfterTurn ==
    /\ Len(transcript) >= 2
    /\ transcript[1].isFinal /\ ~transcript[2].isFinal
    /\ transcript[2].speaker = transcript[1].speaker

\* C5: status is always one of the four values and changes only so:
\* startSession sets Connecting; onopen sets Listening, and only when the
\* microphone stream and the input context exist; a failure of startSession or
\* onerror sets Error; stopSession sets Idle; and Listening is never reached
\* from Idle or Error without a startSession in between.
C5_StatusTransitions ==
    [][/\ status' \in SessionStatus
       /\ status' # status =>
             \/ status' = Connecting /\ last'.op = "startSession"
             \/ status' = Listening /\ last'.op = "onopen"
                   /\ mediaStreamRef # 0 /\ inputAudioContextRef # 0
             \/ status' = Error /\ last'.op \in {"startSession", "startFailed", "onerror", "onerrorWaiting"}
             \/ status' = Idle /\ last'.op \in StopDone
       /\ status' = Listening => status \in {Connecting, Listening}]_vars

SessionErrors == {"Session error: " \o m : m \in ErrorMessages}

\* C6: onerror records 'Session error: <message>' and sets status Error; once
\* the cleanup it started has completed, status is Error and the message is
\* still set, until startSession is called again.
C6_ErrorSurvivesCleanup ==
    [][/\ last'.op \in {"onerror", "onerrorWaiting"} /\ last' # last => error' \in SessionErrors
       /\ last'.op = "onerrorWaiting" => status' = Error
       /\ last'.op = "onerror" => (status' = Error /\ error' \in SessionErrors)
       /\ (status = Error /\ error \in SessionErrors /\ last'.op # "startSession")
             => (status' = Error /\ error' = error)]_vars

SendsOf(f) == {k \in DOMAIN sent : sent[k].f = f}

\* C7: a microphone frame captured while status is Listening is sent exactly
\* once, to the session that was current when it was captured; a frame is
\* sent only to a session whose onopen has run; and a frame captured after
\* stopSession has completed (status Idle) is not sent.
C7_FramesSentOnceWhileListening ==
    /\ \A f \in DOMAIN frames :
          frames[f].status = Listening =>
             /\ frames[f].ref # 0
             /\ Cardinality(SendsOf(f)) <= 1
             /\ SendsOf(f) = {} => \E i \in DOMAIN awaiting : awaiting[i].k = "send" /\ awaiting[i].f = f
             /\ \A k \in SendsOf(f) : sent[k].s = frames[f].ref
    /\ \A k \in DOMAIN sent : sessions[sent[k].s].promise = "resolved"
    /\ frames # <<>> => \E s \in DOMAIN sessions : sessions[s].promise = "resolved"
    /\ \A k \in DOMAIN sent : frames[sent[k].f].status # Idle

\* C11: a chunk whose message arrived before an interrupted message is never
\* started, and never left in outputSources, once that interrupted message
\* has been handled, also when its decoding ends after the interruption.
C11_OvertakenChunkNeverPlays ==
    [][\A i \in NewlyScheduled :
          Head(decoding).overtaken =>
             /\ i \notin outputSources'
             /\ sources'[i].scheduled => sources'[i].stopped]_vars

\* the step is a callback of session s: its socket opened, failed or closed
CallbackOf(s) ==
    /\ s \in DOMAIN sessions
    /\ sessions'[s].phase # sessions[s].phase
    /\ sessions'[s].phase \in {"open", "failed", "closed"}

\* startSession has been called after session s was created
Replaced(s) == gumPending > 0 \/ \E t \in DOMAIN sessions : t > s

\* C12: a callback delivered by a session that has been stopped or replaced
\* changes nothing of a later session: it does not close it, does not drop
\* the references to it or to its microphone, and leaves status and error as
\* the later startSession set them.
C12_StaleCallbackLeavesLaterSession ==
    [][\A s \in DOMAIN sessions :
          (CallbackOf(s) /\ Replaced(s)) =>
             /\ status' = status
             /\ error' = error
             /\ sessionPromiseRef' = sessionPromiseRef
             /\ mediaStreamRef' = mediaStreamRef
             /\ liveTracks' = liveTracks
             /\ closedContexts' = closedContexts
             /\ \A t \in DOMAIN sessions : t > s => sessions'[t] = sessions[t]]_vars

\* C13: every remote session that is connecting or open is the one that
\* sessionPromiseRef refers to, so a later stopSession can reach and close it.
C13_EverySessionReachable ==
    \A s \in DOMAIN sessions :
        sessions[s].phase \in {"connecting", "open"} => sessionPromiseRef = s

\* C14: when stopSession completes, status is Idle, isSpeaking is false,
\* sessionPromiseRef, scriptProcessorRef, mediaStreamSourceRef and
\* mediaStreamRef are null, every microphone track has been stopped,
\* outputSources is empty with all its sources stopped, nextStartTime is 0,
\* and stopSession has left the error message as it was.
C14_StopSessionPostcondition ==
    [][(last'.op \in StopDone /\ currentTime' = currentTime) =>
          /\ status' = Idle
          /\ ~isSpeaking'
          /\ sessionPromiseRef' = 0 /\ scriptProcessorRef' = 0
          /\ mediaStreamSourceRef' = 0 /\ mediaStreamRef' = 0
          /\ liveTracks' = {}
          /\ outputSources' = {}
          /\ \A i \in outputSources : sources'[i].stopped
          /\ nextStartTime' = 0
          /\ error' = error \/ (last'.op = "onerror" /\ error' \in SessionErrors)]_vars

\* C15: when a session closes, onclose runs stopSession: once that call has
\* completed status is Idle, the microphone stream is stopped, the capture
\* nodes are disconnected, the playback queue is empty and no session
\* reference is held; and status is not Listening once onclose has been
\* handled.
C15_CloseEndsIdle ==
    [][/\ (last'.op = "onclose" /\ currentTime' = currentTime) =>
             /\ status' = Idle
             /\ mediaStreamRef' = 0 /\ mediaStreamRef \notin liveTracks'
             /\ scriptProcessorRef' = 0 /\ mediaStreamSourceRef' = 0
             /\ \A p \in processors' : p.id # scriptProcessorRef
             /\ outputSources' = {} /\ nextStartTime' = 0
             /\ sessionPromiseRef' = 0
       /\ (last'.op \in {"onclose", "oncloseWaiting"} /\ currentTime' = currentTime) => status' # Listening]_vars

Stopped ==
    /\ status = Idle /\ ~isSpeaking
    /\ sessionPromiseRef = 0 /\ scriptProcessorRef = 0
    /\ mediaStreamSourceRef = 0 /\ mediaStreamRef = 0
    /\ outputSources = {} /\ nextStartTime = 0

\* what stopSession works on
StopScope == <<status, isSpeaking, transcript, refs, playback, browser>>

\* C17: stopSession is idempotent and safe to re-enter: a call that completes
\* leaves status Idle, the refs cleared and the playback queue empty, and a
\* call that completes after another one has completed (made after it, or
\* suspended on the same promise with it) changes nothing.
C17_StopSessionIdempotent ==
    [][(last'.op \in StopDone /\ currentTime' = currentTime) =>
          /\ Stopped'
          /\ Stopped => StopScope' = StopScope]_vars

\* onerror and then onclose called stopSession while the connect promise was
\* pending; the promise has rejected and both calls have completed
C17_BothCallsCompleted ==
    /\ last.op = "onclose" /\ awaiting = <<>> /\ Stopped
    /\ Len(sessions) = 1
    /\ sessions[1] = [phase |-> "closed", promise |-> "rejected"]

\* the texts of one turn as the state holds them when its last message comes
TurnInput == Accumulate(currentInputTranscription, last'.input)

TurnOutput == Accumulate(currentOutputTranscription, last'.output)

\* C18: on a message with turnComplete the input transcription accumulated
\* since the previous turn, trimmed and if not blank, is appended to
\* conversationHistory as a 'user' message, then the accumulated output
\* transcription as an 'ai' message, and both accumulators become empty, in
\* every turn of a recording.
C18_TurnCompleteAppendsAccumulated ==
    [][(last'.op = "monolith.onmessage" /\ last'.turnComplete)
       => /\ conversationHistory' = CompleteTurn(conversationHistory, TurnInput, TurnOutput)
          /\ currentInputTranscription' = ""
          /\ currentOutputTranscription' = ""]_vars

\* C19: once the App's effects have settled, isSessionActive is false whenever
\* the hook's status is Idle or Error, after every start attempt: one that
\* fails at once, and a second one in a row that fails with the same message.
C19_InactiveWhenIdleOrError ==
    (EffectsSettled /\ status \in {Idle, Error}) => ~isSessionActive

\* a stopSession that has not run to its end, or a socket that is connecting,
\* open or closing, or a startSession that waits for the microphone
TornDownOrLive ==
    \/ gumPending > 0
    \/ \E i \in DOMAIN awaiting : awaiting[i].k = "stop"
    \/ \E s \in DOMAIN sessions : sessions[s].phase \in {"connecting", "open", "closing"}

\* C20: every call of startSession by the App, from the toggle button or from
\* the auto-start effect, comes when no session of the hook is connecting,
\* listening or being torn down and no stopSession is still in progress.
C20_StartOnlyWhenNothingLive ==
    [][(~isSessionActive /\ isSessionActive') => ~TornDownOrLive]_vars

\* a call of startSession that found no API key
StartedWithoutKey == last.op = "startSession" /\ error = "Failed to start: " \o KeyNotFound

\* C21: a startSession called with no API key argument and no key in the
\* environment ends with status Error and the error 'Failed to start: API key
\* not found. Please select or enter an API key.', and it requests no
\* microphone, creates no audio context and opens no session.
C21_NoKeyFailsBeforeAnyResource ==
    [][(~isSessionActive /\ isSessionActive' /\ StartedWithoutKey')
       => /\ status' = Error
          /\ UNCHANGED <<gumPending, sessions, refs, browser>>]_vars

\* the second start of a run found no key, after a session that was stopped
C21_FailedWithoutKey ==
    StartedWithoutKey /\ status = Error /\ isSessionActive /\ Len(sessions) = 1

\* a handleStartRecording that ended in its catch block
StartRecordingFailed == last.op = "handleStartRecording.catch"

\* C22: after a handleStartRecording that failed at any step (microphone
\* access, a context or node that could not be created, connect throwing)
\* isRecording and isLoading are false, the error starts with 'Failed to start
\* microphone or AI session', and the stream, nodes and contexts acquired up
\* to the failure are released with their refs null.
C22_FailedStartReleasesEverything ==
    StartRecordingFailed
    => /\ ~isRecording /\ ~isLoading
       /\ SubSeq(recordingError, 1, Len(StartFailurePrefix)) = StartFailurePrefix
       /\ \A x \in DOMAIN recorderRefs : recorderRefs[x] = 0
       /\ liveResources = {}

\* the second recording failed at connect, with everything acquired, after a
\* first one that was stopped in the middle of a turn
C22_FailedAtConnect ==
    /\ StartRecordingFailed
    /\ recordings = 2
    /\ recordingError = StartFailurePrefix \o ": " \o Thrown(6)
    /\ currentInputTranscription # ""

\* C23: createBlob turns every sample s in [-1, 1] into s * 32768 truncated
\* toward zero, a value of -32768..32767 with the sign of s, with no
\* wrap-around, s = 1 included.
C23_SamplesEncodedWithoutWrap ==
    \A i \in DOMAIN pcmBlob :
        /\ pcmBlob[i] = TruncDiv(inputData[i] * 32768, SampleScale)
        /\ pcmBlob[i] \in -32768..32767
        /\ inputData[i] > 0 => pcmBlob[i] >= 0
        /\ inputData[i] < 0 => pcmBlob[i] <= 0

====
